---- MODULE Spec2Model ----
(***************************************************************************)
(* rtos::Mutex, rtos::RecursiveMutex and rtos::LockGuard<MUTEX> as a state *)
(* machine.  One lock object (of the flavour chosen by mutexKind) is       *)
(* shared by the tasks; tasks call its methods directly or through         *)
(* LockGuard instances.  The FreeRTOS semaphore calls made by the wrapper  *)
(* are modelled by what the kernel does with the mutex holder and the      *)
(* recursive call count.  SpecLife adds the construction and destruction   *)
(* of the lock object, SpecFair the scheduling of tasks that pair every    *)
(* acquire with its release.                                               *)
(***************************************************************************)
EXTENDS Naturals, FiniteSets, Sequences, TLC

\* ------------------------------------------------------------------ bounds
NumTasks == 2
NumGuards == 2
MaxTimeout == 1
MaxRecursion == 2
MaxAttempts == 2

Tasks == 1..NumTasks
Guards == 1..NumGuards
NULL == 0
NoGuard == 0
Timeouts == 0..MaxTimeout

\* Ticks.cpp: GetMaxDelay() returns portMAX_DELAY, the largest Ticks_t value.
portMAX_DELAY == MaxTimeout
GetMaxDelay == portMAX_DELAY

VARIABLES
  mutexKind,            \* template argument MUTEX: "Mutex" or "RecursiveMutex"
  configASSERT,         \* kernel build option: assertions "on" or "off"; "unknown"
                        \* until the first call whose outcome depends on it
  halted,               \* a kernel assertion has stopped the system
  xMutexHolder,         \* kernel: the task holding the mutex, or NULL
  uxRecursiveCallCount, \* kernel: nesting depth of a recursive mutex
  task,                 \* per task: the call it is suspended in, whether the
                        \* call's timeout has elapsed, takes made by the call
  alive,                \* per guard: constructed and not yet destroyed
  owner,                \* per guard: the task whose scope the guard lives in
  _isLocked,            \* per guard: LockGuard::_isLocked
  rawHolds,             \* per task: direct acquisitions not yet matched by an Unlock
  guardHolds,           \* per guard: acquisitions through it not yet released by it
  last,                 \* the step just taken: operation, caller, kernel calls, result
  object,               \* the lock object: "none" before its constructor has
                        \* completed, then "alive", then "destroyed"
  _handle,              \* Mutex::_handle: "nullptr" or the "created" semaphore
  NDEBUG,               \* build option: assert() compiled out ("defined") or
                        \* active ("undefined"); "unknown" until an assert fails
  deleted               \* the handles vSemaphoreDelete has been called with

lifeVars == <<object, _handle, NDEBUG, deleted>>

vars == <<mutexKind, configASSERT, halted, xMutexHolder, uxRecursiveCallCount,
          task, alive, owner, _isLocked, rawHolds, guardHolds, last, lifeVars>>

Kernel == [holder |-> xMutexHolder, count |-> uxRecursiveCallCount]

\* --------------------------------------------------------- kernel primitives
\* One evaluation of xSemaphoreTake by task t: the mutex is taken iff it is
\* free; a task that already holds a non-recursive mutex does not get it again.
xSemaphoreTake(q, t) ==
  IF q.holder = NULL
    THEN [q |-> [q EXCEPT !.holder = t], ret |-> TRUE]
    ELSE [q |-> q, ret |-> FALSE]

\* xSemaphoreTakeRecursive: the holder only deepens the nesting; any other
\* task takes the mutex as xSemaphoreTake does and starts the nesting at 1.
xSemaphoreTakeRecursive(q, t) ==
  IF q.holder = t
    THEN [q |-> [q EXCEPT !.count = @ + 1], ret |-> TRUE]
    ELSE IF q.holder = NULL
           THEN [q |-> [holder |-> t, count |-> q.count + 1], ret |-> TRUE]
           ELSE [q |-> q, ret |-> FALSE]

\* xSemaphoreGive on a non-recursive mutex: a free mutex cannot be given
\* (queue full); a taken one is handed back whoever the caller is.  The
\* kernel asserts that the caller is the holder when assertions are built in.
xSemaphoreGive(q, t, assertOn) ==
  IF q.holder = NULL
    THEN [q |-> q, ret |-> FALSE, abort |-> FALSE]
    ELSE IF q.holder # t /\ assertOn
           THEN [q |-> q, ret |-> FALSE, abort |-> TRUE]
           ELSE [q |-> [q EXCEPT !.holder = NULL], ret |-> TRUE, abort |-> FALSE]

\* xSemaphoreGiveRecursive: only the holder can give; the mutex is handed
\* back when the nesting returns to zero.
xSemaphoreGiveRecursive(q, t) ==
  IF q.holder = t
    THEN [q |-> [holder |-> IF q.count = 1 THEN NULL ELSE t, count |-> q.count - 1],
          ret |-> TRUE, abort |-> FALSE]
    ELSE [q |-> q, ret |-> FALSE, abort |-> FALSE]

xSemaphoreGetMutexHolder(q) == q.holder

\* ------------------------------------------------------------------- Mutex
\* What xSemaphoreCreateMutex / xSemaphoreCreateRecursiveMutex return: the
\* created semaphore, or nullptr when the kernel has no memory for it.
Handles == {"nullptr", "created"}

\* Mutex::Mutex(): _handle is what the kernel returned; assert(_handle) stops
\* the program on nullptr when assert() is active in the build.
Mutex_Mutex(h, assertOn) == [handle |-> h, abort |-> assertOn /\ h = "nullptr"]

\* Mutex::~Mutex(): vSemaphoreDelete(_handle), and no other call on the mutex.
Mutex_dtor(handle) == [nTake |-> 0, deleted |-> handle]

Mutex_IsValid(handle) == handle # "nullptr"

\* The first evaluation of a TryLockFor call: ret is the call's result unless
\* blocks says that the task is suspended inside xSemaphoreTake.
Mutex_TryLockFor(q, t, timeout) ==
  LET r == xSemaphoreTake(q, t)
  IN  [q |-> r.q, ret |-> r.ret, blocks |-> ~r.ret /\ timeout > 0]

\* A TryLock that waits for the mutex.
Mutex_TryLock_Waits(q, t) == Mutex_TryLockFor(q, t, GetMaxDelay)

Mutex_TryLock(q, t) == Mutex_TryLockFor(q, t, 0)

\* Mutex::Lock: the first pass of the do-while body; Lock_Retry makes the
\* further passes while the result is false.
Mutex_Lock(q, t) == Mutex_TryLockFor(q, t, GetMaxDelay)

\* A Lock() that gives up after one TryLockFor(GetMaxDelay()).
Mutex_Lock_Repeats_Never(locked) == FALSE

\* Mutex::Lock: while(!locked), the loop makes another pass.
Mutex_Lock_Repeats(locked) == ~locked

Mutex_Unlock(q, t, assertOn) == xSemaphoreGive(q, t, assertOn)

\* An IsLocked() with the comparison the wrong way round.
Mutex_IsLocked_Inverted(q) == xSemaphoreGetMutexHolder(q) = NULL

Mutex_IsLocked(q) == xSemaphoreGetMutexHolder(q) # NULL

\* ---------------------------------------------------------- RecursiveMutex
RecursiveMutex_RecursiveMutex(h, assertOn) ==
  [handle |-> h, abort |-> assertOn /\ h = "nullptr"]

RecursiveMutex_dtor(handle) == [nTake |-> 0, deleted |-> handle]

RecursiveMutex_IsValid(handle) == handle # "nullptr"

\* A TryLockFor that takes the recursive mutex with the plain take call.
RecursiveMutex_TryLockFor_PlainTake(q, t, timeout) ==
  LET r == xSemaphoreTake(q, t)
  IN  [q |-> r.q, ret |-> r.ret, blocks |-> ~r.ret /\ timeout > 0]

RecursiveMutex_TryLockFor(q, t, timeout) ==
  LET r == xSemaphoreTakeRecursive(q, t)
  IN  [q |-> r.q, ret |-> r.ret, blocks |-> ~r.ret /\ timeout > 0]

RecursiveMutex_TryLock(q, t) == RecursiveMutex_TryLockFor(q, t, 0)

RecursiveMutex_Lock(q, t) == RecursiveMutex_TryLockFor(q, t, GetMaxDelay)

\* A Lock() that gives up after one TryLockFor(GetMaxDelay()).
RecursiveMutex_Lock_Repeats_Never(locked) == FALSE

RecursiveMutex_Lock_Repeats(locked) == ~locked

\* An Unlock that gives the recursive mutex back with the plain give call.
RecursiveMutex_Unlock_PlainGive(q, t) == xSemaphoreGive(q, t, FALSE)

RecursiveMutex_Unlock(q, t) == xSemaphoreGiveRecursive(q, t)

RecursiveMutex_IsLocked(q) == xSemaphoreGetMutexHolder(q) # NULL

\* ------------------------------------------------- the MUTEX of LockGuard
\* _mutex.TryLockFor / TryLock / Lock / Unlock of the bound lock type.
M_TryLockFor(q, t, timeout) ==
  IF mutexKind = "Mutex" THEN Mutex_TryLockFor(q, t, timeout)
                         ELSE RecursiveMutex_TryLockFor(q, t, timeout)

M_TryLock(q, t) ==
  IF mutexKind = "Mutex" THEN Mutex_TryLock(q, t) ELSE RecursiveMutex_TryLock(q, t)

M_Lock(q, t) ==
  IF mutexKind = "Mutex" THEN Mutex_Lock(q, t) ELSE RecursiveMutex_Lock(q, t)

M_Lock_Repeats(locked) ==
  IF mutexKind = "Mutex" THEN Mutex_Lock_Repeats(locked)
                         ELSE RecursiveMutex_Lock_Repeats(locked)

M_Unlock(q, t, assertOn) ==
  IF mutexKind = "Mutex" THEN Mutex_Unlock(q, t, assertOn)
                         ELSE RecursiveMutex_Unlock(q, t)

M_IsLocked(q) ==
  IF mutexKind = "Mutex" THEN Mutex_IsLocked(q) ELSE RecursiveMutex_IsLocked(q)

M_ctor(h, assertOn) ==
  IF mutexKind = "Mutex" THEN Mutex_Mutex(h, assertOn)
                         ELSE RecursiveMutex_RecursiveMutex(h, assertOn)

M_dtor(handle) ==
  IF mutexKind = "Mutex" THEN Mutex_dtor(handle) ELSE RecursiveMutex_dtor(handle)

M_IsValid(handle) ==
  IF mutexKind = "Mutex" THEN Mutex_IsValid(handle) ELSE RecursiveMutex_IsValid(handle)

\* The retried evaluation inside a blocked xSemaphoreTake[Recursive].
M_Take(q, t) ==
  IF mutexKind = "Mutex" THEN xSemaphoreTake(q, t) ELSE xSemaphoreTakeRecursive(q, t)

\* --------------------------------------------------------------- LockGuard
\* The outcome of a guard method: the new flag, the kernel state, the value
\* returned, whether the kernel granted the mutex, how many take and give
\* calls were made on the lock, and whether the task is left suspended in
\* the lock's call (the flag is then assigned when that call returns).
NoCall(isLocked, q, ret) ==
  [isLocked |-> isLocked, q |-> q, ret |-> ret, took |-> FALSE,
   nTake |-> 0, nGive |-> 0, blocks |-> FALSE, abort |-> FALSE]

OwnsLock(isLocked) == isLocked

\* _isLocked = true, once _mutex.Lock() has returned.
LockGuard_Lock_Return(locked) == TRUE

LockGuard_Lock(isLocked, q, t) ==
  IF ~OwnsLock(isLocked)
    THEN LET r == M_Lock(q, t)
         IN  [isLocked |-> IF r.blocks THEN isLocked ELSE LockGuard_Lock_Return(r.ret),
              q |-> r.q, ret |-> TRUE, took |-> r.ret,
              nTake |-> 1, nGive |-> 0, blocks |-> r.blocks, abort |-> FALSE]
    ELSE NoCall(isLocked, q, TRUE)

\* A TryLock that sets the flag without looking at the lock's answer.
LockGuard_TryLock_IgnoresResult(isLocked, q, t) ==
  IF ~OwnsLock(isLocked)
    THEN LET r == M_TryLock(q, t)
         IN  [isLocked |-> TRUE, q |-> r.q, ret |-> TRUE, took |-> r.ret,
              nTake |-> 1, nGive |-> 0, blocks |-> r.blocks, abort |-> FALSE]
    ELSE NoCall(isLocked, q, isLocked)

LockGuard_TryLock(isLocked, q, t) ==
  IF ~OwnsLock(isLocked)
    THEN LET r == M_TryLock(q, t)
         IN  [isLocked |-> r.ret, q |-> r.q, ret |-> r.ret, took |-> r.ret,
              nTake |-> 1, nGive |-> 0, blocks |-> r.blocks, abort |-> FALSE]
    ELSE NoCall(isLocked, q, isLocked)

\* _isLocked = _mutex.TryLockFor(timeout), once the call has returned.
\* A TryLockFor that sets the flag whatever the lock answered.
LockGuard_TryLockFor_Return_AlwaysTrue(locked) == TRUE

LockGuard_TryLockFor_Return(locked) == locked

\* A TryLockFor that calls the lock again although the guard owns it.
LockGuard_TryLockFor_NoCheck(isLocked, q, t, timeout) ==
  LET r == M_TryLockFor(q, t, timeout)
  IN  [isLocked |-> IF r.blocks THEN isLocked ELSE LockGuard_TryLockFor_Return(r.ret),
       q |-> r.q, ret |-> r.ret, took |-> r.ret,
       nTake |-> 1, nGive |-> 0, blocks |-> r.blocks, abort |-> FALSE]

LockGuard_TryLockFor(isLocked, q, t, timeout) ==
  IF ~OwnsLock(isLocked)
    THEN LET r == M_TryLockFor(q, t, timeout)
         IN  [isLocked |-> IF r.blocks THEN isLocked ELSE LockGuard_TryLockFor_Return(r.ret),
              q |-> r.q, ret |-> r.ret, took |-> r.ret,
              nTake |-> 1, nGive |-> 0, blocks |-> r.blocks, abort |-> FALSE]
    ELSE NoCall(isLocked, q, isLocked)

\* An Unlock that leaves the flag set.
LockGuard_Unlock_KeepsFlag(isLocked, q, t, assertOn) ==
  IF OwnsLock(isLocked)
    THEN LET r == M_Unlock(q, t, assertOn)
         IN  [isLocked |-> isLocked, q |-> r.q, ret |-> r.ret, took |-> FALSE,
              nTake |-> 0, nGive |-> 1, blocks |-> FALSE, abort |-> r.abort]
    ELSE NoCall(isLocked, q, FALSE)

\* An Unlock that releases the lock without looking at the flag.
LockGuard_Unlock_NoCheck(isLocked, q, t, assertOn) ==
  LET r == M_Unlock(q, t, assertOn)
  IN  [isLocked |-> FALSE, q |-> r.q, ret |-> r.ret, took |-> FALSE,
       nTake |-> 0, nGive |-> 1, blocks |-> FALSE, abort |-> r.abort]

LockGuard_Unlock(isLocked, q, t, assertOn) ==
  IF OwnsLock(isLocked)
    THEN LET r == M_Unlock(q, t, assertOn)
         IN  [isLocked |-> FALSE, q |-> r.q, ret |-> r.ret, took |-> FALSE,
              nTake |-> 0, nGive |-> 1, blocks |-> FALSE, abort |-> r.abort]
    ELSE NoCall(isLocked, q, FALSE)

\* The four constructors: _isLocked(false), then the policy's acquire call.
LockGuard_ctor(q, t) == LockGuard_Lock(FALSE, q, t)

\* A deferring constructor that tries the lock all the same.
LockGuard_ctorDeferLock_Tries(q, t) == LockGuard_TryLock(FALSE, q, t)

LockGuard_ctorDeferLock(q, t) == NoCall(FALSE, q, FALSE)

\* A try-once constructor that waits for the lock.
LockGuard_ctorTryToLock_Waits(q, t) == LockGuard_TryLockFor(FALSE, q, t, GetMaxDelay)

LockGuard_ctorTryToLock(q, t) == LockGuard_TryLock(FALSE, q, t)

LockGuard_ctorTimeout(q, t, timeout) == LockGuard_TryLockFor(FALSE, q, t, timeout)

\* A destructor that does not unlock.
LockGuard_dtor_NoUnlock(isLocked, q, t, assertOn) == NoCall(isLocked, q, FALSE)

LockGuard_dtor(isLocked, q, t, assertOn) == LockGuard_Unlock(isLocked, q, t, assertOn)

\* A direct call on the lock, in the shape of a guard outcome.
Direct(r) ==
  [isLocked |-> FALSE, q |-> r.q, ret |-> r.ret, took |-> r.ret,
   nTake |-> 1, nGive |-> 0, blocks |-> r.blocks, abort |-> FALSE]

DirectUnlock(r) ==
  [isLocked |-> FALSE, q |-> r.q, ret |-> r.ret, took |-> FALSE,
   nTake |-> 0, nGive |-> 1, blocks |-> FALSE, abort |-> r.abort]

\* ------------------------------------------------------------------- state
Idle == [pc |-> "idle", op |-> "none", method |-> "none", g |-> NoGuard,
         elapsed |-> FALSE, nTake |-> 0]

HoldsOf(t, g) == IF g = NoGuard THEN rawHolds[t] ELSE guardHolds[g]

\* wait: the call was made with a timeout other than zero.
Step(op, t, g, owned, timeout, r, done) ==
  [op |-> op, t |-> t, g |-> g, owned |-> owned, wait |-> timeout > 0,
   ret |-> r.ret, took |-> r.took, nTake |-> r.nTake, nGive |-> r.nGive,
   done |-> done, pre |-> Kernel, preHolds |-> HoldsOf(t, g)]

\* The record of a step that is not a call on the lock or on a guard.
NoStep(op) ==
  [op |-> op, t |-> NULL, g |-> NoGuard, owned |-> FALSE, wait |-> FALSE,
   ret |-> FALSE, took |-> FALSE, nTake |-> 0, nGive |-> 0, done |-> TRUE,
   pre |-> [holder |-> NULL, count |-> 0], preHolds |-> 0]

Init ==
  /\ mutexKind \in {"Mutex", "RecursiveMutex"}
  /\ configASSERT = "unknown"
  /\ halted = FALSE
  /\ xMutexHolder = NULL
  /\ uxRecursiveCallCount = 0
  /\ task = [t \in Tasks |-> Idle]
  /\ alive = [g \in Guards |-> FALSE]
  /\ owner = [g \in Guards |-> NULL]
  /\ _isLocked = [g \in Guards |-> FALSE]
  /\ rawHolds = [t \in Tasks |-> 0]
  /\ guardHolds = [g \in Guards |-> 0]
  /\ last = NoStep("init")
  /\ object = "alive"
  /\ _handle = "created"
  /\ NDEBUG = "unknown"
  /\ deleted = << >>

\* The lock's methods are called on a live object with a created handle:
\* calls on an invalid or destroyed object are outside the contract.
Valid == object = "alive" /\ M_IsValid(_handle)

\* Task t is running and can make a call.
Running(t) == ~halted /\ task[t].pc = "idle"

Ready(t) == Running(t) /\ Valid

\* A task makes direct acquire calls only up to the modelled nesting depth.
DepthOk(t) ==
  /\ rawHolds[t] < MaxRecursion
  /\ (mutexKind = "RecursiveMutex" /\ xMutexHolder = t) => uxRecursiveCallCount < MaxRecursion

\* The effect of an acquire call (method Lock, TryLock or TryLockFor) made by
\* task t, directly (g = NoGuard) or through guard g, whose first evaluation
\* had outcome r: the call returns, or the task is suspended in it.
Acquire(op, method, t, g, owned, timeout, r) ==
  /\ xMutexHolder' = r.q.holder
  /\ uxRecursiveCallCount' = r.q.count
  /\ IF r.blocks
       THEN /\ task' = [task EXCEPT ![t] = [pc |-> "blocked", op |-> op, method |-> method,
                                            g |-> g, elapsed |-> FALSE, nTake |-> r.nTake]]
            /\ _isLocked' = IF g = NoGuard THEN _isLocked
                            ELSE [_isLocked EXCEPT ![g] = r.isLocked]
            /\ UNCHANGED <<rawHolds, guardHolds>>
       ELSE /\ task' = task
            /\ _isLocked' = IF g = NoGuard THEN _isLocked
                            ELSE [_isLocked EXCEPT ![g] = r.isLocked]
            /\ rawHolds' = IF g = NoGuard /\ r.took
                             THEN [rawHolds EXCEPT ![t] = @ + 1] ELSE rawHolds
            /\ guardHolds' = IF g # NoGuard /\ r.took
                               THEN [guardHolds EXCEPT ![g] = @ + 1] ELSE guardHolds
  /\ last' = Step(op, t, g, owned, timeout, r, ~r.blocks)
  /\ UNCHANGED <<mutexKind, configASSERT, halted, lifeVars>>

\* The builds the execution so far can be an execution of.
Builds == IF configASSERT = "unknown" THEN {"on", "off"} ELSE {configASSERT}

\* A give by task t in kernel state q runs the kernel's holder assertion.
Asserted(q, t) == mutexKind = "Mutex" /\ q.holder \notin {NULL, t}

\* The effect of a release call made by task t, directly or through guard g,
\* in a kernel of build b.
Release(op, t, g, owned, r, b) ==
  /\ configASSERT' = IF r.nGive > 0 /\ Asserted(Kernel, t) THEN b ELSE configASSERT
  /\ xMutexHolder' = r.q.holder
  /\ uxRecursiveCallCount' = r.q.count
  /\ halted' = r.abort
  /\ _isLocked' = IF g = NoGuard THEN _isLocked ELSE [_isLocked EXCEPT ![g] = r.isLocked]
  /\ rawHolds' = IF g = NoGuard /\ r.nGive > 0 /\ rawHolds[t] > 0
                   THEN [rawHolds EXCEPT ![t] = @ - 1] ELSE rawHolds
  /\ guardHolds' = IF g # NoGuard /\ r.nGive > 0 /\ guardHolds[g] > 0
                     THEN [guardHolds EXCEPT ![g] = @ - 1] ELSE guardHolds
  /\ last' = Step(op, t, g, owned, 0, r, ~r.abort)
  /\ UNCHANGED <<mutexKind, task, lifeVars>>

\* ------------------------------------------- direct calls on the lock object
Lock_Call(t) ==
  /\ Ready(t) /\ DepthOk(t)
  /\ Acquire("Lock", "Lock", t, NoGuard, FALSE, GetMaxDelay, Direct(M_Lock(Kernel, t)))
  /\ UNCHANGED <<alive, owner>>

TryLock_Call(t) ==
  /\ Ready(t) /\ DepthOk(t)
  /\ Acquire("TryLock", "TryLock", t, NoGuard, FALSE, 0, Direct(M_TryLock(Kernel, t)))
  /\ UNCHANGED <<alive, owner>>

TryLockFor_Call(t, timeout) ==
  /\ Ready(t) /\ DepthOk(t)
  /\ Acquire("TryLockFor", "TryLockFor", t, NoGuard, FALSE, timeout,
             Direct(M_TryLockFor(Kernel, t, timeout)))
  /\ UNCHANGED <<alive, owner>>

Unlock_Call(t) ==
  /\ Ready(t)
  /\ \E b \in Builds :
       Release("Unlock", t, NoGuard, FALSE, DirectUnlock(M_Unlock(Kernel, t, b = "on")), b)
  /\ UNCHANGED <<alive, owner>>

\* ------------------------------------------------ the life of the lock object
\* The builds the execution so far can be an execution of.
AssertBuilds == IF NDEBUG = "unknown" THEN {"defined", "undefined"} ELSE {NDEBUG}

\* Task t constructs the lock object: the kernel returns handle h.
Lock_ctor(t) ==
  /\ Running(t) /\ object = "none"
  /\ \E h \in Handles, b \in AssertBuilds :
       LET r == M_ctor(h, b = "undefined")
       IN  /\ _handle' = r.handle
           /\ NDEBUG' = IF h = "nullptr" THEN b ELSE NDEBUG
           /\ halted' = r.abort
           /\ object' = IF r.abort THEN "none" ELSE "alive"
           /\ last' = [NoStep("ctorLock") EXCEPT !.t = t, !.took = (h = "created"),
                                                 !.done = ~r.abort]
  /\ UNCHANGED <<mutexKind, configASSERT, xMutexHolder, uxRecursiveCallCount,
                 task, alive, owner, _isLocked, rawHolds, guardHolds, deleted>>

\* Task t destroys the lock object, whatever state the mutex is in.
Lock_dtor(t) ==
  /\ Running(t) /\ object = "alive"
  /\ LET r == M_dtor(_handle)
     IN  /\ deleted' = Append(deleted, r.deleted)
         /\ last' = [NoStep("dtorLock") EXCEPT !.t = t, !.nTake = r.nTake, !.pre = Kernel]
  /\ object' = "destroyed"
  /\ UNCHANGED <<mutexKind, configASSERT, halted, xMutexHolder, uxRecursiveCallCount,
                 task, alive, owner, _isLocked, rawHolds, guardHolds, _handle, NDEBUG>>

IsValid_Call(t) ==
  /\ Running(t) /\ object = "alive"
  /\ last' = [NoStep("IsValid") EXCEPT !.t = t, !.ret = M_IsValid(_handle), !.pre = Kernel]
  /\ UNCHANGED <<mutexKind, configASSERT, halted, xMutexHolder, uxRecursiveCallCount,
                 task, alive, owner, _isLocked, rawHolds, guardHolds, lifeVars>>

\* ------------------------------------------------------- calls on a LockGuard
Construct(g, t) ==
  /\ Ready(t) /\ ~alive[g]
  /\ alive' = [alive EXCEPT ![g] = TRUE]
  /\ owner' = [owner EXCEPT ![g] = t]

Guard_ctor(g, t) ==
  /\ Construct(g, t)
  /\ Acquire("ctor", "Lock", t, g, FALSE, GetMaxDelay, LockGuard_ctor(Kernel, t))

Guard_ctorDeferLock(g, t) ==
  /\ Construct(g, t)
  /\ Acquire("ctorDeferLock", "none", t, g, FALSE, 0, LockGuard_ctorDeferLock(Kernel, t))

Guard_ctorTryToLock(g, t) ==
  /\ Construct(g, t)
  /\ Acquire("ctorTryToLock", "TryLock", t, g, FALSE, 0, LockGuard_ctorTryToLock(Kernel, t))

Guard_ctorTimeout(g, t, timeout) ==
  /\ Construct(g, t)
  /\ Acquire("ctorTimeout", "TryLockFor", t, g, FALSE, timeout,
             LockGuard_ctorTimeout(Kernel, t, timeout))

Usable(g) == alive[g] /\ Ready(owner[g])

Guard_dtor(g) ==
  /\ Usable(g)
  /\ \E b \in Builds :
       Release("dtor", owner[g], g, _isLocked[g],
               LockGuard_dtor(_isLocked[g], Kernel, owner[g], b = "on"), b)
  /\ alive' = [alive EXCEPT ![g] = FALSE]
  /\ owner' = [owner EXCEPT ![g] = NULL]

Guard_Lock(g) ==
  /\ Usable(g)
  /\ Acquire("Guard.Lock", "Lock", owner[g], g, _isLocked[g], GetMaxDelay,
             LockGuard_Lock(_isLocked[g], Kernel, owner[g]))
  /\ UNCHANGED <<alive, owner>>

Guard_TryLock(g) ==
  /\ Usable(g)
  /\ Acquire("Guard.TryLock", "TryLock", owner[g], g, _isLocked[g], 0,
             LockGuard_TryLock(_isLocked[g], Kernel, owner[g]))
  /\ UNCHANGED <<alive, owner>>

Guard_TryLockFor(g, timeout) ==
  /\ Usable(g)
  /\ Acquire("Guard.TryLockFor", "TryLockFor", owner[g], g, _isLocked[g], timeout,
             LockGuard_TryLockFor(_isLocked[g], Kernel, owner[g], timeout))
  /\ UNCHANGED <<alive, owner>>

Guard_Unlock(g) ==
  /\ Usable(g)
  /\ \E b \in Builds :
       Release("Guard.Unlock", owner[g], g, _isLocked[g],
               LockGuard_Unlock(_isLocked[g], Kernel, owner[g], b = "on"), b)
  /\ UNCHANGED <<alive, owner>>

\* ------------------------------------------ a task suspended in a take call
Blocked(t) == ~halted /\ Valid /\ task[t].pc = "blocked"

\* The value the suspended guard method assigns to _isLocked when the lock's
\* call returns locked.
FlagOnReturn(method, locked) ==
  IF method = "Lock" THEN LockGuard_Lock_Return(locked)
                     ELSE LockGuard_TryLockFor_Return(locked)

\* The call of the suspended task t returns locked.
Return(t, locked, q) ==
  LET c == task[t]
      r == [ret |-> IF c.method = "Lock" THEN TRUE ELSE locked, took |-> locked,
            nTake |-> c.nTake, nGive |-> 0]
  IN  /\ xMutexHolder' = q.holder
      /\ uxRecursiveCallCount' = q.count
      /\ task' = [task EXCEPT ![t] = Idle]
      /\ _isLocked' = IF c.g = NoGuard THEN _isLocked
                      ELSE [_isLocked EXCEPT ![c.g] = FlagOnReturn(c.method, locked)]
      /\ rawHolds' = IF c.g = NoGuard /\ locked
                       THEN [rawHolds EXCEPT ![t] = @ + 1] ELSE rawHolds
      /\ guardHolds' = IF c.g # NoGuard /\ locked
                         THEN [guardHolds EXCEPT ![c.g] = @ + 1] ELSE guardHolds
      /\ last' = Step(c.op, t, c.g, FALSE, GetMaxDelay, r, TRUE)
      /\ UNCHANGED <<mutexKind, configASSERT, halted, alive, owner, lifeVars>>

\* The mutex has become available: the kernel grants it to the waiting task.
TakeWake(t) ==
  /\ Blocked(t)
  /\ M_Take(Kernel, t).ret
  /\ Return(t, TRUE, M_Take(Kernel, t).q)

\* The ticks of the waiting task's timeout pass.
TimeoutTick(t) ==
  /\ Blocked(t)
  /\ ~task[t].elapsed
  /\ task' = [task EXCEPT ![t].elapsed = TRUE]
  /\ last' = NoStep("tick")
  /\ UNCHANGED <<mutexKind, configASSERT, halted, xMutexHolder, uxRecursiveCallCount,
                 alive, owner, _isLocked, rawHolds, guardHolds, lifeVars>>

\* The timeout has passed with the mutex still taken: xSemaphoreTake returns
\* pdFALSE and TryLockFor returns false.  Lock() returns on it only if its
\* loop does not repeat on a false result.
TakeExpire(t) ==
  /\ Blocked(t)
  /\ task[t].method = "Lock" => ~M_Lock_Repeats(FALSE)
  /\ task[t].elapsed
  /\ ~M_Take(Kernel, t).ret
  /\ Return(t, FALSE, Kernel)

\* Lock(): the wait of GetMaxDelay() ticks has passed with the mutex still
\* taken: locked is false and the do-while loop calls TryLockFor again.
Lock_Retry(t) ==
  /\ Blocked(t)
  /\ task[t].method = "Lock"
  /\ M_Lock_Repeats(FALSE)
  /\ task[t].elapsed
  /\ task[t].nTake < MaxAttempts
  /\ ~M_Take(Kernel, t).ret
  /\ task' = [task EXCEPT ![t].elapsed = FALSE, ![t].nTake = @ + 1]
  /\ last' = Step(task[t].op, t, task[t].g, FALSE, GetMaxDelay,
                  [NoCall(FALSE, Kernel, FALSE) EXCEPT !.nTake = task[t].nTake + 1], FALSE)
  /\ UNCHANGED <<mutexKind, configASSERT, halted, xMutexHolder, uxRecursiveCallCount,
                 alive, owner, _isLocked, rawHolds, guardHolds, lifeVars>>

\* ----------------------------------------------------------- specifications
Waiting ==
  \E t \in Tasks : TakeWake(t) \/ TimeoutTick(t) \/ TakeExpire(t) \/ Lock_Retry(t)

GuardCalls ==
  \/ \E g \in Guards, t \in Tasks : Guard_ctor(g, t)
  \/ \E g \in Guards, t \in Tasks : Guard_ctorDeferLock(g, t)
  \/ \E g \in Guards, t \in Tasks : Guard_ctorTryToLock(g, t)
  \/ \E g \in Guards, t \in Tasks, timeout \in Timeouts : Guard_ctorTimeout(g, t, timeout)
  \/ \E g \in Guards : Guard_dtor(g)
  \/ \E g \in Guards : Guard_Lock(g)
  \/ \E g \in Guards : Guard_TryLock(g)
  \/ \E g \in Guards, timeout \in Timeouts : Guard_TryLockFor(g, timeout)
  \/ \E g \in Guards : Guard_Unlock(g)

DirectCalls ==
  \/ \E t \in Tasks : Lock_Call(t)
  \/ \E t \in Tasks : TryLock_Call(t)
  \/ \E t \in Tasks, timeout \in Timeouts : TryLockFor_Call(t, timeout)
  \/ \E t \in Tasks : Unlock_Call(t)

\* Tasks call the methods of the lock object directly.
Next == DirectCalls \/ Waiting

Spec == Init /\ [][Next]_vars

\* Tasks use the lock through guards only.
NextGuard == GuardCalls \/ Waiting

SpecGuard == Init /\ [][NextGuard]_vars

\* The lock object from before its construction to after its destruction.
InitLife ==
  /\ mutexKind \in {"Mutex", "RecursiveMutex"}
  /\ configASSERT = "unknown"
  /\ halted = FALSE
  /\ xMutexHolder = NULL
  /\ uxRecursiveCallCount = 0
  /\ task = [t \in Tasks |-> Idle]
  /\ alive = [g \in Guards |-> FALSE]
  /\ owner = [g \in Guards |-> NULL]
  /\ _isLocked = [g \in Guards |-> FALSE]
  /\ rawHolds = [t \in Tasks |-> 0]
  /\ guardHolds = [g \in Guards |-> 0]
  /\ last = NoStep("init")
  /\ object = "none"
  /\ _handle = "nullptr"
  /\ NDEBUG = "unknown"
  /\ deleted = << >>

NextLife ==
  \/ \E t \in Tasks : Lock_ctor(t)
  \/ \E t \in Tasks : Lock_dtor(t)
  \/ \E t \in Tasks : IsValid_Call(t)
  \/ DirectCalls
  \/ Waiting

SpecLife == InitLife /\ [][NextLife]_vars

\* Task t is between a successful acquire and its matching Unlock().
InCriticalSection(t) ==
  \/ rawHolds[t] > 0
  \/ \E g \in Guards : owner[g] = t /\ guardHolds[g] > 0

\* Task t, which is inside the critical section, leaves it: Unlock() after a
\* Lock(), the end of the scope of its guard.
Releases(t) ==
  \/ rawHolds[t] > 0 /\ Unlock_Call(t)
  \/ \E g \in Guards : owner[g] = t /\ Guard_dtor(g)

\* Task t, which is outside the critical section, tries to enter it: with
\* Lock(), with a guard constructed with LockGuard(mutex), or with a
\* TryLockFor(timeout) that may give up.
Enters(t) ==
  \/ ~InCriticalSection(t) /\ Lock_Call(t)
  \/ ~InCriticalSection(t) /\ \E g \in Guards : Guard_ctor(g, t)
  \/ ~InCriticalSection(t) /\ \E timeout \in Timeouts : TryLockFor_Call(t, timeout)

\* Tasks that pair every acquire with its release.
NextPaired == (\E t \in Tasks : Enters(t) \/ Releases(t)) \/ Waiting

\* Every task that is inside eventually releases, and the scheduler does not
\* pass over a waiting task for ever when the mutex is free again and again.
Fairness ==
  \A t \in Tasks : WF_vars(Releases(t)) /\ SF_vars(TakeWake(t))

SpecFair == Init /\ [][NextPaired]_vars /\ Fairness

\* ------------------------------------------------------------------ claims

\* C1: at most one task at a time is between a successful acquire of the
\* non-recursive Mutex and its matching Unlock(), whatever Lock(), TryLock(),
\* TryLockFor(t) and Unlock() calls the tasks make.
C1_MutualExclusion ==
  mutexKind = "Mutex" => Cardinality({t \in Tasks : InCriticalSection(t)}) <= 1

\* C2: no two LockGuard instances bound to the same non-recursive Mutex
\* report OwnsLock() == true at the same time.
C2_OneOwningGuard ==
  mutexKind = "Mutex" =>
    \A g1 \in Guards, g2 \in Guards :
      (g1 # g2 /\ alive[g1] /\ alive[g2]) => ~(OwnsLock(_isLocked[g1]) /\ OwnsLock(_isLocked[g2]))

\* A guard has just failed to acquire the Mutex that another guard owns.
C2_Witness ==
  /\ mutexKind = "Mutex"
  /\ last.op \in {"Guard.TryLock", "Guard.TryLockFor", "ctorTryToLock", "ctorTimeout"}
  /\ last.done /\ last.nTake > 0 /\ ~last.took
  /\ alive[last.g] /\ ~OwnsLock(_isLocked[last.g])
  /\ \E g \in Guards : g # last.g /\ alive[g] /\ OwnsLock(_isLocked[g])

\* The number of holds task t has on the lock in kernel state q.
HoldCount(q, t) ==
  IF q.holder # t THEN 0
  ELSE IF mutexKind = "Mutex" THEN 1 ELSE q.count

OwnedGuards(t) == {g \in Guards : owner[g] = t /\ OwnsLock(_isLocked[g])}

\* C3: OwnsLock() of a guard is true iff an acquisition made through this
\* guard has not yet been released, and the guards of a task that report
\* ownership are exactly the holds the task has on the lock.
C3_FlagIffGuardHolds ==
  /\ \A g \in Guards : OwnsLock(_isLocked[g]) <=> guardHolds[g] > 0
  /\ \A t \in Tasks : Cardinality(OwnedGuards(t)) = HoldCount(Kernel, t)

\* A guard reports no ownership after its Unlock() while its own task still
\* holds the lock through another guard.
C3_Witness ==
  /\ last.op = "Guard.Unlock" /\ last.owned /\ last.done
  /\ ~OwnsLock(_isLocked[last.g])
  /\ xMutexHolder = last.t
  /\ \E g \in Guards : g # last.g /\ owner[g] = last.t /\ OwnsLock(_isLocked[g])

\* C4: the destructor of an Owned guard calls Unlock() on the lock exactly
\* once and the lock is then not held on behalf of the guard; the destructor
\* of an Unowned guard makes no call.
C4_DtorReleasesOnce ==
  last.op = "dtor" =>
    /\ last.nGive = (IF last.owned THEN 1 ELSE 0)
    /\ last.nTake = 0
    /\ ~alive[last.g] /\ ~OwnsLock(_isLocked[last.g]) /\ guardHolds[last.g] = 0
    /\ HoldCount(Kernel, last.t) = HoldCount(last.pre, last.t) - (IF last.owned THEN 1 ELSE 0)

\* An Owned guard has been destroyed and the Mutex is free again.
C4_Witness ==
  /\ last.op = "dtor" /\ last.owned /\ last.done
  /\ last.pre.holder = last.t /\ xMutexHolder = NULL

\* C5: Unlock() on an Unowned guard (also from the destructor) makes no call
\* on the lock and changes neither the flag nor the lock's holder and count.
C5_UnlockIdempotent ==
  (last.op \in {"Guard.Unlock", "dtor"} /\ ~last.owned) =>
    /\ last.nGive = 0 /\ last.nTake = 0
    /\ Kernel = last.pre
    /\ ~OwnsLock(_isLocked[last.g])
    /\ guardHolds[last.g] = last.preHolds

\* Unlock() on an Unowned guard whose task holds the lock through another guard.
C5_Witness ==
  /\ last.op = "Guard.Unlock" /\ ~last.owned /\ last.done
  /\ xMutexHolder = last.t

\* C6: Lock(), TryLock() and TryLockFor(t) on an Owned guard make no call on
\* the lock, leave the guard Owned and the lock's holder and count unchanged,
\* and the two try methods return true.
C6_AcquireIdempotent ==
  (last.op \in {"Guard.Lock", "Guard.TryLock", "Guard.TryLockFor"} /\ last.owned) =>
    /\ last.done
    /\ last.nTake = 0 /\ last.nGive = 0
    /\ Kernel = last.pre
    /\ OwnsLock(_isLocked[last.g])
    /\ guardHolds[last.g] = last.preHolds
    /\ last.ret

\* TryLockFor with a wait on a guard that owns the lock.
C6_Witness ==
  /\ last.op = "Guard.TryLockFor" /\ last.owned /\ last.wait
  /\ xMutexHolder = last.t

\* C7: when the constructor LockGuard(mutex) has returned, OwnsLock() is true
\* and the constructing task holds the lock.
C7_ImmediateOwns ==
  (last.op = "ctor" /\ last.done) =>
    /\ alive[last.g] /\ owner[last.g] = last.t
    /\ OwnsLock(_isLocked[last.g])
    /\ last.took
    /\ xMutexHolder = last.t
    /\ task[last.t].pc = "idle"

\* The constructor has returned after waiting through a timed-out pass.
C7_Witness ==
  /\ last.op = "ctor" /\ last.done /\ last.nTake > 1
  /\ OwnsLock(_isLocked[last.g])

\* C8 as stated: LockGuard(mutex, tryToLock) against a lock that is already
\* held leaves OwnsLock() false, against a free lock true, after exactly one
\* attempt and without suspending the task.
C8_TryOnceStated ==
  last.op = "ctorTryToLock" =>
    /\ last.done /\ last.nTake = 1 /\ task[last.t].pc = "idle"
    /\ OwnsLock(_isLocked[last.g]) <=> (last.pre.holder = NULL)

\* The lock is available to task t in kernel state q: it is free, or it is a
\* RecursiveMutex that t holds itself.
AvailableTo(q, t) ==
  q.holder = NULL \/ (mutexKind = "RecursiveMutex" /\ q.holder = t)

\* C8 amended: LockGuard(mutex, tryToLock) leaves OwnsLock() false when the
\* lock is held by another task or is a non-recursive Mutex held by any task,
\* and true when the lock is free or is a RecursiveMutex held by the
\* constructing task; it makes exactly one attempt and does not suspend.
C8_TryOnce ==
  last.op = "ctorTryToLock" =>
    /\ last.done /\ last.nTake = 1 /\ task[last.t].pc = "idle"
    /\ OwnsLock(_isLocked[last.g]) <=> AvailableTo(last.pre, last.t)
    /\ OwnsLock(_isLocked[last.g]) => xMutexHolder = last.t
    /\ ~OwnsLock(_isLocked[last.g]) => Kernel = last.pre

\* The try-once constructor has failed against a lock held by another task.
C8_Witness ==
  /\ last.op = "ctorTryToLock" /\ last.done
  /\ last.pre.holder \notin {NULL, last.t}
  /\ ~OwnsLock(_isLocked[last.g])

ExplicitAcquire == {"Guard.Lock", "Guard.TryLock", "Guard.TryLockFor"}

\* C9: LockGuard(mutex, deferLock) makes no call on the lock, leaves holder
\* and count unchanged and OwnsLock() false; the flag of a constructed guard
\* becomes true only in an explicit Lock(), TryLock() or TryLockFor() on it.
C9_Deferred ==
  /\ [](last.op = "ctorDeferLock" =>
          /\ last.done /\ last.nTake = 0 /\ last.nGive = 0
          /\ Kernel = last.pre
          /\ alive[last.g] /\ ~OwnsLock(_isLocked[last.g]))
  /\ [][\A g \in Guards :
          (alive[g] /\ task[owner[g]].pc = "idle" /\ ~_isLocked[g] /\ _isLocked'[g]) =>
            (last'.g = g /\ last'.op \in ExplicitAcquire /\ last'.took)]_vars

\* A guard has been constructed deferred on a free lock.
C9_Witness ==
  /\ last.op = "ctorDeferLock" /\ last.pre.holder = NULL
  /\ alive[last.g] /\ ~OwnsLock(_isLocked[last.g])

TimedAcquire == {"ctorTimeout", "Guard.TryLockFor"}

\* C10: LockGuard(mutex, timeout) and TryLockFor(timeout) on an Unowned guard
\* leave OwnsLock() true exactly when the lock was granted before the timeout
\* elapsed; otherwise OwnsLock() is false, the guard holds nothing and the
\* call has left the lock's holder and count as they were.
C10_Timed ==
  (last.op \in TimedAcquire /\ ~last.owned) =>
    /\ last.done => (OwnsLock(_isLocked[last.g]) <=> last.took)
    /\ last.done => (last.ret <=> last.took)
    /\ last.took => /\ xMutexHolder = last.t
                    /\ HoldCount(Kernel, last.t) = HoldCount(last.pre, last.t) + 1
    /\ ~last.took => /\ Kernel = last.pre
                     /\ ~OwnsLock(_isLocked[last.g])
                     /\ guardHolds[last.g] = 0

\* A timed constructor has returned without the lock after its wait elapsed.
C10_Witness ==
  /\ last.op = "ctorTimeout" /\ last.done /\ last.wait
  /\ ~last.took /\ last.pre.holder # NULL
  /\ ~OwnsLock(_isLocked[last.g])

\* C11: on a Mutex, IsLocked() is true right after each Lock() has returned
\* and false right after each Unlock() that balances an acquire of the
\* calling task, and it is true exactly when the kernel's holder is a task
\* that is between an acquire and its Unlock().
C11_IsLocked ==
  mutexKind = "Mutex" =>
    /\ (last.op = "Lock" /\ last.done) => Mutex_IsLocked(Kernel)
    /\ (last.op = "Unlock" /\ last.done /\ last.preHolds > 0) => ~Mutex_IsLocked(Kernel)
    /\ Mutex_IsLocked(Kernel) <=> \E t \in Tasks : xMutexHolder = t /\ rawHolds[t] > 0

\* The holder of the Mutex has just made its balanced Unlock().
C11_Witness ==
  /\ mutexKind = "Mutex"
  /\ last.op = "Unlock" /\ last.done /\ last.preHolds > 0
  /\ last.pre.holder = last.t
  /\ ~Mutex_IsLocked(Kernel)

AcquireCalls == {"Lock", "TryLock", "TryLockFor"}

\* C12: on a RecursiveMutex every acquire call of the owning task succeeds
\* at once and deepens the hold by one; the holds of a task are the kernel's
\* count; IsLocked() is true while that count is not zero; an Unlock() of the
\* owner lowers it by one and frees the lock exactly at the last one; and no
\* other task acquires the lock before that.
C12_HoldCount ==
  mutexKind = "RecursiveMutex" =>
    /\ \A t \in Tasks : rawHolds[t] = HoldCount(Kernel, t)
    /\ RecursiveMutex_IsLocked(Kernel) <=> \E t \in Tasks : rawHolds[t] > 0
    /\ (last.op \in AcquireCalls /\ last.pre.holder = last.t) =>
         /\ last.done /\ last.ret /\ last.took /\ last.nTake = 1
         /\ task[last.t].pc = "idle"
         /\ xMutexHolder = last.t
         /\ uxRecursiveCallCount = last.pre.count + 1
    /\ (last.op = "Unlock" /\ last.pre.holder = last.t) =>
         /\ uxRecursiveCallCount = last.pre.count - 1
         /\ RecursiveMutex_IsLocked(Kernel) <=> last.pre.count > 1
         /\ last.pre.count > 1 => xMutexHolder = last.t
    /\ (last.op \in AcquireCalls /\ last.took /\ last.pre.holder # last.t) =>
         /\ last.pre.holder = NULL /\ last.pre.count = 0

\* The owner has given back one of two holds while another task waits: the
\* RecursiveMutex is still locked.
C12_Witness ==
  /\ mutexKind = "RecursiveMutex"
  /\ last.op = "Unlock" /\ last.pre.holder = last.t /\ last.pre.count = 2
  /\ RecursiveMutex_IsLocked(Kernel) /\ rawHolds[last.t] = 1
  /\ \E t \in Tasks : t # last.t /\ task[t].pc = "blocked"

\* C13: Mutex::TryLock() returns at once, without suspending the caller; it
\* returns true exactly when the Mutex was free, and the caller is then the
\* holder; when it returns false the holder is who it was.
C13_TryLock ==
  (mutexKind = "Mutex" /\ last.op = "TryLock") =>
    /\ last.done /\ ~last.wait /\ last.nTake = 1
    /\ task[last.t].pc = "idle"
    /\ last.ret <=> last.pre.holder = NULL
    /\ last.ret => (xMutexHolder = last.t /\ rawHolds[last.t] = last.preHolds + 1)
    /\ ~last.ret => (Kernel = last.pre /\ rawHolds[last.t] = last.preHolds)

\* TryLock() has failed against a Mutex that another task holds.
C13_Witness ==
  /\ mutexKind = "Mutex" /\ last.op = "TryLock" /\ last.done
  /\ ~last.ret
  /\ last.pre.holder \notin {NULL, last.t} /\ xMutexHolder = last.pre.holder

\* C14: the constructor of the lock completes normally whether or not the
\* kernel returned a handle, IsValid() then tells whether it did, and the
\* answer of IsValid() stays the same for the whole life of the object.
C14_ConstructionFailure ==
  /\ last.op = "ctorLock" =>
       /\ last.done /\ ~halted /\ object = "alive"
       /\ M_IsValid(_handle) <=> last.took
  /\ last.op = "IsValid" => (last.ret <=> M_IsValid(_handle))
  /\ object = "none" => ~M_IsValid(_handle)

\* C18: the destructor of the lock takes the mutex and then deletes the
\* native handle; the handle is deleted exactly once, by the destructor, and
\* only a handle that was created is deleted.
C18_DtorTakesThenDeletes ==
  /\ Len(deleted) = (IF object = "destroyed" THEN 1 ELSE 0)
  /\ \A i \in 1..Len(deleted) : deleted[i] = "created"
  /\ last.op = "dtorLock" => last.nTake = 1

\* C15: when Lock() of a Mutex or a RecursiveMutex has returned, the calling
\* task holds the lock: the call lasts, through timed-out attempts, until an
\* attempt is granted.
C15_LockReturnsHolding ==
  last.op = "Lock" =>
    /\ last.done => /\ last.took
                    /\ xMutexHolder = last.t
                    /\ rawHolds[last.t] = last.preHolds + 1
                    /\ task[last.t].pc = "idle"
    /\ ~last.done => /\ task[last.t].pc = "blocked"
                     /\ xMutexHolder \notin {NULL, last.t} \/ mutexKind = "Mutex"
                     /\ rawHolds[last.t] = last.preHolds

\* Lock() has returned with the lock after an attempt that timed out.
C15_Witness ==
  /\ last.op = "Lock" /\ last.done /\ last.nTake > 1
  /\ xMutexHolder = last.t

\* C16: an Unlock() by a task that does not hold the lock (a Mutex held by
\* another task or by none, a RecursiveMutex of which the caller has no hold
\* left) returns normally, the kernel's give fails, and the holder and the
\* hold count are what they were.
C16_UnbalancedUnlockSilent ==
  (last.op = "Unlock" /\ last.pre.holder # last.t) =>
    /\ last.done /\ ~halted
    /\ last.nGive = 1 /\ ~last.ret
    /\ Kernel = last.pre

\* C17: while a task owns a RecursiveMutex, an acquire call of any other task
\* is not granted and leaves holder and count alone: TryLock() and a
\* TryLockFor(t) that has run out return false and Lock() does not return;
\* at most one task is between an acquire and its last matching Unlock().
C17_RecursiveExcludes ==
  mutexKind = "RecursiveMutex" =>
    /\ Cardinality({t \in Tasks : InCriticalSection(t)}) <= 1
    /\ \A t \in Tasks : InCriticalSection(t) => xMutexHolder = t
    /\ (last.op \in AcquireCalls /\ last.pre.holder \notin {NULL, last.t}) =>
         /\ ~last.took /\ Kernel = last.pre
         /\ last.done => (~last.ret /\ last.op # "Lock")
         /\ ~last.wait => last.done
         /\ ~last.done => task[last.t].pc = "blocked"

\* A TryLockFor(t) of a task has run out while another task owned the
\* RecursiveMutex twice over.
C17_Witness ==
  /\ mutexKind = "RecursiveMutex"
  /\ last.op = "TryLockFor" /\ last.wait /\ last.done /\ ~last.ret
  /\ last.pre.holder \notin {NULL, last.t} /\ last.pre.count = 2

\* Task t is suspended in Lock() on a Mutex that it holds itself.
SelfDeadlocked(t) ==
  /\ mutexKind = "Mutex"
  /\ task[t].pc = "blocked" /\ task[t].method = "Lock"
  /\ xMutexHolder = t

\* C19: a task that holds a Mutex and calls Lock() on it again, directly or
\* in the constructor LockGuard(mutex), stays suspended in the call for ever,
\* as nothing but the suspended task could release the Mutex; TryLock() and
\* TryLockFor(t) by the holder return false.
C19_SelfDeadlock ==
  /\ [](mutexKind = "Mutex" =>
          /\ (last.op \in {"Lock", "ctor", "Guard.Lock"} /\ last.nTake > 0
                 /\ last.pre.holder = last.t) => ~last.done
          /\ (last.op \in {"TryLock", "TryLockFor", "ctorTryToLock", "ctorTimeout",
                            "Guard.TryLock", "Guard.TryLockFor"}
                 /\ last.nTake > 0 /\ last.pre.holder = last.t /\ last.done) => ~last.ret)
  /\ [][\A t \in Tasks : SelfDeadlocked(t) => SelfDeadlocked(t)']_vars

\* C20: when every task that has acquired the lock eventually releases it and
\* the scheduler is fair to a waiting task, a task suspended in Lock() or in
\* the constructor LockGuard(mutex) eventually returns holding the lock.
C20_BlockedEventuallyHolds ==
  \A t \in Tasks :
    (task[t].pc = "blocked" /\ task[t].method = "Lock") ~>
      (task[t].pc = "idle" /\ xMutexHolder = t /\ InCriticalSection(t))

\* A task that was passed over while it waited has returned from its
\* blocking acquire with the lock.
C20_Witness ==
  /\ last.op \in {"Lock", "ctor"} /\ last.done /\ last.nTake > 1
  /\ task[last.t].pc = "idle" /\ xMutexHolder = last.t /\ InCriticalSection(last.t)

====
